---- MODULE Spec2Model ----
(***************************************************************************)
(* Model of ha-sip/src/ha.py: the Home Assistant bridge of ha-sip.         *)
(*                                                                         *)
(* HaConfig derives the auth headers and the endpoint URLs; the three      *)
(* operations create_and_get_tts, call_service and trigger_webhook are     *)
(* synchronous, blocking calls made one at a time by the telephony layer.  *)
(* The hub, the network, the decoder and the filesystem are the            *)
(* environment: every HTTP request is answered by a response (a status and *)
(* a body) or fails in transport (requests raises), decoding succeeds      *)
(* exactly on a decodable payload, and the export to the .wav scratch file *)
(* may fail (I/O error).                                                   *)
(***************************************************************************)
EXTENDS Integers, Sequences, FiniteSets, TLC

VARIABLES
    ha_config,        \* the HaConfig instance (immutable after __init__)
    pc,               \* position of the running call ("idle" between calls)
    call,             \* the running operation and its arguments
    requests,         \* HTTP requests issued by the running call, in order
    create_response,  \* response to the TTS-creation POST
    mp3_url,          \* url taken from the creation response
    mp3_response,     \* response to the audio GET
    service_response, \* response to the service or webhook POST
    sound,            \* decoded audio segment
    mp3_file,         \* name of the open mp3 scratch file (delete on close)
    wave_file,        \* name of the .wav scratch file (delete=False)
    disk,             \* scratch files on disk: name -> content
    created,          \* scratch file names created by the running call
    next_tmp,         \* how many scratch names tempfile has handed out
    trace,            \* steps performed by the running call, in order
    log,              \* lines printed by the running call
    result            \* how the running call ended

vars == <<ha_config, pc, call, requests, create_response, mp3_url, mp3_response,
          service_response, sound, mp3_file, wave_file, disk, created, next_tmp,
          trace, log, result>>

---------------------------------------------------------------------------
(* Bounds *)

\* scratch names tempfile may hand out over a run (two per transcoding)
MaxTmp == 4

---------------------------------------------------------------------------
(* Inputs *)

BaseUrls == {"http://h:8123/api", "http://h"}
Tokens == {"t", ""}
TtsEngines == {"google_translate"}
TtsLanguages == {"", "de"}
WebhookIds == {"", "sip_call"}

Messages == {"hello", ""}
Languages == {"en", "de"}
Domains == {"light", "switch"}
Services == {"turn_on"}
EntityIds == {"light.hall"}

NoneValue == "<None>"
Callers == {"+4930123"}
ParsedCallers == {NoneValue, "30123"}

\* the closed union WebhookEvent
IncomingCallEvent ==
    {[event |-> "incoming_call", caller |-> c, parsed_caller |-> p] :
        c \in Callers, p \in ParsedCallers}
CallEstablishedEvent ==
    {[event |-> "call_established", caller |-> c, parsed_caller |-> p] :
        c \in Callers, p \in ParsedCallers}
CallDisconnectedEvent ==
    {[event |-> "call_disconnected", caller |-> c, parsed_caller |-> p] :
        c \in Callers, p \in ParsedCallers}
EnteredMenuEvent ==
    {[event |-> "entered_menu", caller |-> c, parsed_caller |-> p, menu_id |-> "main"] :
        c \in Callers, p \in ParsedCallers}
DtmfDigitEvent ==
    {[event |-> "dtmf_digit", caller |-> c, parsed_caller |-> p, digit |-> "5"] :
        c \in Callers, p \in ParsedCallers}
Timeout == {[event |-> "timeout"]}
WebhookEvent ==
    IncomingCallEvent \cup CallEstablishedEvent \cup CallDisconnectedEvent
        \cup EnteredMenuEvent \cup DtmfDigitEvent \cup Timeout

---------------------------------------------------------------------------
(* Environment: what the hub and the network may answer *)

HTTP_OK == 200
Statuses == {HTTP_OK, 201, 404, 500}

\* a response body: a JSON object (a set of <<key, value>> pairs), another
\* JSON value, or text that is not JSON
AudioUrl == "http://h:8123/api/tts_proxy/a.mp3"
JsonBodies ==
    { [kind |-> "json_object", fields |-> {<<"url", AudioUrl>>}],
      [kind |-> "json_object", fields |-> {<<"message", "bad request">>}],
      [kind |-> "json_other", fields |-> {}],
      [kind |-> "text", fields |-> {}] }

\* a fetched payload: compressed audio that decodes, truncated audio, or
\* something that is no audio at all (an error page)
ValidMp3 == [codec |-> "mp3", intact |-> TRUE, frames |-> <<1, 2>>]
AudioPayloads ==
    { ValidMp3,
      [codec |-> "mp3", intact |-> FALSE, frames |-> <<1>>],
      [codec |-> "html", intact |-> TRUE, frames |-> <<>>] }

NoBody == [kind |-> "none", fields |-> {}]
NoPayload == [codec |-> "none", intact |-> FALSE, frames |-> <<>>]
NoResponse == [kind |-> "none", status_code |-> -1, body |-> NoBody, content |-> NoPayload]

JsonResponse(status, body) ==
    [kind |-> "response", status_code |-> status, body |-> body, content |-> NoPayload]
ContentResponse(status, payload) ==
    [kind |-> "response", status_code |-> status, body |-> NoBody, content |-> payload]

---------------------------------------------------------------------------
(* HaConfig *)

HaConfig(base_url, token, tts_engine, tts_language, webhook_id) ==
    [base_url |-> base_url,
     token |-> token,
     tts_engine |-> tts_engine,
     tts_language |-> IF tts_language = "" THEN "en" ELSE tts_language,
     webhook_id |-> webhook_id]

create_headers_plain(cfg) ==
    ("Authorization" :> cfg.token) @@ ("content-type" :> "application/json")

create_headers(cfg) ==
    ("Authorization" :> "Bearer " \o cfg.token) @@ ("content-type" :> "application/json")

get_tts_url(cfg) == cfg.base_url \o "/tts_get_url"

get_service_url_swapped(cfg, domain, service) ==
    cfg.base_url \o "/services/" \o service \o "/" \o domain

get_service_url(cfg, domain, service) ==
    cfg.base_url \o "/services/" \o domain \o "/" \o service

get_webhook_url_no_id(cfg) == cfg.base_url \o "/webhook/"

get_webhook_url(cfg) == cfg.base_url \o "/webhook/" \o cfg.webhook_id

---------------------------------------------------------------------------
(* Results, scratch files and the transcoder *)

\* os.path.join(constants.ROOT_PATH, 'sound/answer.wav')
ROOT_PATH == "/ha-sip"
error_file_name == ROOT_PATH \o "/" \o "sound/answer.wav"

NoResult == [kind |-> "none", path |-> NoneValue, owned |-> FALSE, error |-> "", at |-> ""]
Return(path, owned) ==
    [kind |-> "return", path |-> path, owned |-> owned, error |-> "", at |-> ""]
ReturnNone == Return(NoneValue, FALSE)

\* a try/except around the request that substitutes the bundled file
RaiseCaughtOnTransport(error, at) ==
    IF error = "ConnectionError"
    THEN Return(error_file_name, FALSE)
    ELSE [kind |-> "raise", path |-> NoneValue, owned |-> FALSE, error |-> error, at |-> at]

\* nothing in ha.py catches: an exception ends the call where it arises
Raise(error, at) ==
    [kind |-> "raise", path |-> NoneValue, owned |-> FALSE, error |-> error, at |-> at]

TmpName(n, suffix) == "/tmp/tmp" \o ToString(n) \o suffix

NoSound == [frames |-> <<>>]
Decodable(stream) == stream.codec = "mp3" /\ stream.intact
from_mp3(stream) == [frames |-> stream.frames]
Mp3Content(stream) == [format |-> stream.codec, frames |-> stream.frames]
EmptyContent == [format |-> "empty", frames |-> <<>>]
export(snd) == [format |-> "wav", frames |-> snd.frames]

Remove(d, name) == [n \in (DOMAIN d) \ {name} |-> d[n]]

convert_result_mp3(mp3_name, wave_name) == mp3_name

convert_result(mp3_name, wave_name) == wave_name

TtsCreateFailedOnlyOnError(status) == status >= 400

TtsCreateFailed(status) == status /= HTTP_OK

\* response_deserialized.get('url'): a missing key gives None instead of raising
ResponseUrlOrNone(body) ==
    IF body.kind = "text"
    THEN [ok |-> FALSE, url |-> NoneValue, error |-> "JSONDecodeError", at |-> "json"]
    ELSE IF body.kind /= "json_object"
    THEN [ok |-> FALSE, url |-> NoneValue, error |-> "TypeError", at |-> "url"]
    ELSE IF \E f \in body.fields : f[1] = "url"
    THEN [ok |-> TRUE, url |-> (CHOOSE f \in body.fields : f[1] = "url")[2],
          error |-> "", at |-> ""]
    ELSE [ok |-> TRUE, url |-> NoneValue, error |-> "", at |-> ""]

\* create_response.json()['url']
ResponseUrl(body) ==
    IF body.kind = "text"
    THEN [ok |-> FALSE, url |-> NoneValue, error |-> "JSONDecodeError", at |-> "json"]
    ELSE IF body.kind /= "json_object"
    THEN [ok |-> FALSE, url |-> NoneValue, error |-> "TypeError", at |-> "url"]
    ELSE IF \E f \in body.fields : f[1] = "url"
    THEN [ok |-> TRUE, url |-> (CHOOSE f \in body.fields : f[1] = "url")[2],
          error |-> "", at |-> ""]
    ELSE [ok |-> FALSE, url |-> NoneValue, error |-> "KeyError", at |-> "url"]

NoWebhookDefinedNever(cfg) == FALSE

NoWebhookDefined(cfg) == cfg.webhook_id = ""

---------------------------------------------------------------------------
(* Initial state *)

NoCall == [op |-> "none"]

Init ==
    /\ ha_config \in {HaConfig(b, t, e, l, w) :
            b \in BaseUrls, t \in Tokens, e \in TtsEngines,
            l \in TtsLanguages, w \in WebhookIds}
    /\ pc = "idle"
    /\ call = NoCall
    /\ requests = <<>>
    /\ create_response = NoResponse
    /\ mp3_url = NoneValue
    /\ mp3_response = NoResponse
    /\ service_response = NoResponse
    /\ sound = NoSound
    /\ mp3_file = NoneValue
    /\ wave_file = NoneValue
    /\ disk = <<>>
    /\ created = {}
    /\ next_tmp = 0
    /\ trace = <<>>
    /\ log = <<>>
    /\ result = NoResult

\* the telephony layer makes one call at a time; a call starts with nothing
\* carried over from the previous one but the config and the disk
Begin(c, first) ==
    /\ pc \in {"idle", "done"}
    /\ call' = c
    /\ pc' = first
    /\ requests' = <<>>
    /\ create_response' = NoResponse
    /\ mp3_url' = NoneValue
    /\ mp3_response' = NoResponse
    /\ service_response' = NoResponse
    /\ sound' = NoSound
    /\ mp3_file' = NoneValue
    /\ wave_file' = NoneValue
    /\ created' = {}
    /\ trace' = <<>>
    /\ log' = <<>>
    /\ result' = NoResult
    /\ UNCHANGED <<ha_config, disk, next_tmp>>

---------------------------------------------------------------------------
(* create_and_get_tts *)

CallCreateAndGetTts(message, language) ==
    /\ next_tmp + 2 <= MaxTmp
    /\ Begin([op |-> "create_and_get_tts", message |-> message, language |-> language],
             "tts_post")

\* headers = create_headers(); create_response = requests.post(get_tts_url(), ...)
TtsPost ==
    /\ pc = "tts_post"
    /\ requests' = Append(requests,
            [method |-> "POST",
             url |-> get_tts_url(ha_config),
             json |-> [platform |-> ha_config.tts_engine,
                       message |-> call.message,
                       language |-> call.language],
             headers |-> create_headers(ha_config)])
    /\ trace' = Append(trace, "POST")
    /\ \/ /\ result' = Raise("ConnectionError", "create_post")
          /\ pc' = "done"
          /\ UNCHANGED create_response
       \/ \E status \in Statuses, body \in JsonBodies :
            /\ create_response' = JsonResponse(status, body)
            /\ pc' = "tts_check"
            /\ UNCHANGED result
    /\ UNCHANGED <<ha_config, call, mp3_url, mp3_response, service_response, sound,
                   mp3_file, wave_file, disk, created, next_tmp, log>>

\* if create_response.status_code != 200: print, return error_file_name, False
TtsCheckStatus ==
    /\ pc = "tts_check"
    /\ IF TtsCreateFailed(create_response.status_code)
       THEN /\ log' = Append(log, [line |-> "| Error getting tts file",
                                   status_code |-> create_response.status_code])
            /\ result' = Return(error_file_name, FALSE)
            /\ pc' = "done"
       ELSE /\ pc' = "tts_parse"
            /\ UNCHANGED <<log, result>>
    /\ UNCHANGED <<ha_config, call, requests, create_response, mp3_url, mp3_response,
                   service_response, sound, mp3_file, wave_file, disk, created,
                   next_tmp, trace>>

\* response_deserialized = create_response.json(); mp3_url = response_deserialized['url']
TtsParse ==
    /\ pc = "tts_parse"
    /\ LET r == ResponseUrl(create_response.body) IN
        IF r.ok
        THEN /\ mp3_url' = r.url
             /\ pc' = "tts_get"
             /\ UNCHANGED result
        ELSE /\ result' = Raise(r.error, r.at)
             /\ pc' = "done"
             /\ UNCHANGED mp3_url
    /\ UNCHANGED <<ha_config, call, requests, create_response, mp3_response,
                   service_response, sound, mp3_file, wave_file, disk, created,
                   next_tmp, trace, log>>

\* mp3_response = requests.get(mp3_url, headers=headers); its status is not looked at
TtsGet ==
    /\ pc = "tts_get"
    /\ requests' = Append(requests,
            [method |-> "GET", url |-> mp3_url, headers |-> create_headers(ha_config)])
    /\ trace' = Append(trace, "GET")
    /\ \/ /\ result' = Raise("ConnectionError", "mp3_get")
          /\ pc' = "done"
          /\ UNCHANGED mp3_response
       \/ \E status \in Statuses, payload \in AudioPayloads :
            /\ mp3_response' = ContentResponse(status, payload)
            /\ pc' = "conv_write"
            /\ UNCHANGED result
    /\ UNCHANGED <<ha_config, call, create_response, mp3_url, service_response, sound,
                   mp3_file, wave_file, disk, created, next_tmp, log>>

\* mp3_file_handler = NamedTemporaryFile(); write(stream); flush()
ConvWriteMp3 ==
    /\ pc = "conv_write"
    /\ LET name == TmpName(next_tmp, "") IN
        /\ mp3_file' = name
        /\ disk' = (name :> Mp3Content(mp3_response.content)) @@ disk
        /\ created' = created \cup {name}
    /\ next_tmp' = next_tmp + 1
    /\ trace' = Append(trace, "write_mp3")
    /\ pc' = "conv_decode"
    /\ UNCHANGED <<ha_config, call, requests, create_response, mp3_url, mp3_response,
                   service_response, sound, wave_file, log, result>>

\* sound = pydub.AudioSegment.from_mp3(mp3_file_handler.name); when it raises the
\* frame is left and the mp3 scratch file, opened with delete on close, goes
ConvDecode ==
    /\ pc = "conv_decode"
    /\ trace' = Append(trace, "decode")
    /\ IF Decodable(mp3_response.content)
       THEN /\ sound' = from_mp3(mp3_response.content)
            /\ pc' = "conv_create"
            /\ UNCHANGED <<disk, result>>
       ELSE /\ result' = Raise("CouldntDecodeError", "decode")
            /\ disk' = Remove(disk, mp3_file)
            /\ pc' = "done"
            /\ UNCHANGED sound
    /\ UNCHANGED <<ha_config, call, requests, create_response, mp3_url, mp3_response,
                   service_response, mp3_file, wave_file, created, next_tmp, log>>

\* wave_file_handler = NamedTemporaryFile(suffix='.wav', delete=False)
ConvCreateWave ==
    /\ pc = "conv_create"
    /\ LET name == TmpName(next_tmp, ".wav") IN
        /\ wave_file' = name
        /\ disk' = (name :> EmptyContent) @@ disk
        /\ created' = created \cup {name}
    /\ next_tmp' = next_tmp + 1
    /\ trace' = Append(trace, "create_wave")
    /\ pc' = "conv_export"
    /\ UNCHANGED <<ha_config, call, requests, create_response, mp3_url, mp3_response,
                   service_response, sound, mp3_file, log, result>>

\* sound.export(wave_file_handler.name, format='wav'); an I/O error raises, the
\* mp3 scratch file goes with its handler and the .wav file (delete=False) stays
ConvExport ==
    /\ pc = "conv_export"
    /\ trace' = Append(trace, "export")
    /\ \/ /\ disk' = [disk EXCEPT ![wave_file] = export(sound)]
          /\ pc' = "conv_return"
          /\ UNCHANGED result
       \/ /\ result' = Raise("OSError", "export")
          /\ disk' = Remove(disk, mp3_file)
          /\ pc' = "done"
    /\ UNCHANGED <<ha_config, call, requests, create_response, mp3_url, mp3_response,
                   service_response, sound, mp3_file, wave_file, created, next_tmp, log>>

\* return wave_file_handler.name (convert_mp3_to_wav), True (create_and_get_tts);
\* the handlers are closed on leaving the frame: the mp3 scratch file goes
ConvReturn ==
    /\ pc = "conv_return"
    /\ result' = Return(convert_result(mp3_file, wave_file), TRUE)
    /\ disk' = Remove(disk, mp3_file)
    /\ pc' = "done"
    /\ UNCHANGED <<ha_config, call, requests, create_response, mp3_url, mp3_response,
                   service_response, sound, mp3_file, wave_file, created, next_tmp,
                   trace, log>>

---------------------------------------------------------------------------
(* call_service *)

CallCallService(domain, service, entity_id) ==
    Begin([op |-> "call_service", domain |-> domain, service |-> service,
           entity_id |-> entity_id], "svc_post")

\* service_response = requests.post(get_service_url(domain, service), ...)
ServicePost ==
    /\ pc = "svc_post"
    /\ requests' = Append(requests,
            [method |-> "POST",
             url |-> get_service_url(ha_config, call.domain, call.service),
             json |-> [entity_id |-> call.entity_id],
             headers |-> create_headers(ha_config)])
    /\ trace' = Append(trace, "POST")
    /\ \/ /\ result' = Raise("ConnectionError", "service_post")
          /\ pc' = "done"
          /\ UNCHANGED service_response
       \/ \E status \in Statuses, body \in JsonBodies :
            /\ service_response' = JsonResponse(status, body)
            /\ pc' = "svc_log"
            /\ UNCHANGED result
    /\ UNCHANGED <<ha_config, call, create_response, mp3_url, mp3_response, sound,
                   mp3_file, wave_file, disk, created, next_tmp, log>>

\* print('| Service response', status_code, content); return None
ServiceLog ==
    /\ pc = "svc_log"
    /\ log' = Append(log, [line |-> "| Service response",
                           status_code |-> service_response.status_code])
    /\ result' = ReturnNone
    /\ pc' = "done"
    /\ UNCHANGED <<ha_config, call, requests, create_response, mp3_url, mp3_response,
                   service_response, sound, mp3_file, wave_file, disk, created,
                   next_tmp, trace>>

---------------------------------------------------------------------------
(* trigger_webhook *)

CallTriggerWebhook(event) ==
    Begin([op |-> "trigger_webhook", event |-> event], "wh_guard")

\* if not ha_config.webhook_id: print warning, return; else print '| Calling webhook'
WebhookGuard ==
    /\ pc = "wh_guard"
    /\ IF NoWebhookDefined(ha_config)
       THEN /\ log' = Append(log, [line |-> "| Warning: No webhook defined.",
                                   status_code |-> -1])
            /\ result' = ReturnNone
            /\ pc' = "done"
       ELSE /\ log' = Append(log, [line |-> "| Calling webhook", status_code |-> -1])
            /\ pc' = "wh_post"
            /\ UNCHANGED result
    /\ UNCHANGED <<ha_config, call, requests, create_response, mp3_url, mp3_response,
                   service_response, sound, mp3_file, wave_file, disk, created,
                   next_tmp, trace>>

\* service_response = requests.post(get_webhook_url(), json=event, headers=headers)
WebhookPost ==
    /\ pc = "wh_post"
    /\ requests' = Append(requests,
            [method |-> "POST",
             url |-> get_webhook_url(ha_config),
             json |-> call.event,
             headers |-> create_headers(ha_config)])
    /\ trace' = Append(trace, "POST")
    /\ \/ /\ result' = Raise("ConnectionError", "webhook_post")
          /\ pc' = "done"
          /\ UNCHANGED service_response
       \/ \E status \in Statuses, body \in JsonBodies :
            /\ service_response' = JsonResponse(status, body)
            /\ pc' = "wh_log"
            /\ UNCHANGED result
    /\ UNCHANGED <<ha_config, call, create_response, mp3_url, mp3_response, sound,
                   mp3_file, wave_file, disk, created, next_tmp, log>>

\* print('| Webhook response', status_code, content); return None
WebhookLog ==
    /\ pc = "wh_log"
    /\ log' = Append(log, [line |-> "| Webhook response",
                           status_code |-> service_response.status_code])
    /\ result' = ReturnNone
    /\ pc' = "done"
    /\ UNCHANGED <<ha_config, call, requests, create_response, mp3_url, mp3_response,
                   service_response, sound, mp3_file, wave_file, disk, created,
                   next_tmp, trace>>

---------------------------------------------------------------------------
(* Specification *)

Next ==
    \/ \E m \in Messages, l \in Languages : CallCreateAndGetTts(m, l)
    \/ TtsPost
    \/ TtsCheckStatus
    \/ TtsParse
    \/ TtsGet
    \/ ConvWriteMp3
    \/ ConvDecode
    \/ ConvCreateWave
    \/ ConvExport
    \/ ConvReturn
    \/ \E d \in Domains, s \in Services, e \in EntityIds : CallCallService(d, s, e)
    \/ ServicePost
    \/ ServiceLog
    \/ \E ev \in WebhookEvent : CallTriggerWebhook(ev)
    \/ WebhookGuard
    \/ WebhookPost
    \/ WebhookLog

Spec == Init /\ [][Next]_vars

---------------------------------------------------------------------------
(* Properties *)

Done == pc = "done"
InTts == call.op = "create_and_get_tts"
InService == call.op = "call_service"
InWebhook == call.op = "trigger_webhook"

Answered(r) == r.kind = "response"
HasUrl(body) == body.kind = "json_object" /\ \E f \in body.fields : f[1] = "url"
Is2xx(status) == status \in 200..299
ReturnedFallback ==
    result.kind = "return" /\ result.path = error_file_name /\ result.owned = FALSE
ReturnedNothing ==
    result.kind = "return" /\ result.path = NoneValue
ExpectedHeaders ==
    ("Authorization" :> "Bearer " \o ha_config.token)
        @@ ("content-type" :> "application/json")
\* scratch files of the running call that are still on disk
LeftOnDisk == created \cap DOMAIN disk
\* the last request of the running call got no response: requests raised
TransportFailed ==
    /\ Done
    /\ requests /= <<>>
    /\ IF InTts
       THEN \/ Len(requests) = 1 /\ ~Answered(create_response)
            \/ Len(requests) = 2 /\ ~Answered(mp3_response)
       ELSE ~Answered(service_response)
ExportFailed == result.kind = "raise" /\ result.at = "export"

\* C1: whenever the TTS-creation POST is answered with a status other than 200,
\* create_and_get_tts issues no further request, creates no scratch file and
\* returns the bundled fallback path with owned = False, for every message and
\* language.
C1_FallbackOnNon200 ==
    (InTts /\ Answered(create_response) /\ create_response.status_code /= 200)
        => /\ pc \in {"tts_check", "done"}
           /\ Len(requests) = 1
           /\ created = {}
           /\ Done => ReturnedFallback

C1_Witness ==
    /\ Done /\ InTts
    /\ Answered(create_response) /\ create_response.status_code = 201
    /\ call.message = "" /\ call.language = "de"
    /\ ReturnedFallback

\* C2: trigger_webhook with an empty webhook_id issues no HTTP request and
\* returns None, for every event.
C2_EmptyWebhookIdSkips ==
    (InWebhook /\ ha_config.webhook_id = "")
        => /\ pc \in {"wh_guard", "done"}
           /\ requests = <<>>
           /\ Done => ReturnedNothing

C2_Witness ==
    /\ Done /\ InWebhook /\ ha_config.webhook_id = ""
    /\ call.event.event = "dtmf_digit"
    /\ ReturnedNothing /\ requests = <<>>

\* C3: when the creation POST is answered 200 with a url, the GET is answered
\* with a decodable payload and the export to the scratch file does not fail,
\* the call did POST, then GET of that url, then the transcoding steps, and
\* returned owned = True with the path of the second scratch file, created in
\* this call, holding the exported .wav; never the fallback path.
C3_SuccessPath ==
    (/\ Done /\ InTts
     /\ Answered(create_response) /\ create_response.status_code = 200
     /\ HasUrl(create_response.body)
     /\ Answered(mp3_response) /\ Decodable(mp3_response.content)
     /\ ~ExportFailed)
        => /\ trace = <<"POST", "GET", "write_mp3", "decode", "create_wave", "export">>
           /\ Len(requests) = 2
           /\ requests[1].method = "POST" /\ requests[2].method = "GET"
           /\ \E f \in create_response.body.fields :
                f[1] = "url" /\ requests[2].url = f[2]
           /\ result.kind = "return" /\ result.owned = TRUE
           /\ result.path = wave_file
           /\ result.path = TmpName(next_tmp - 1, ".wav")
           /\ result.path \in created
           /\ result.path /= mp3_file
           /\ result.path /= error_file_name
           /\ result.path \in DOMAIN disk
           /\ disk[result.path] = [format |-> "wav", frames |-> mp3_response.content.frames]

C3_Witness ==
    /\ Done /\ InTts
    /\ create_response.status_code = 200 /\ HasUrl(create_response.body)
    /\ Answered(mp3_response) /\ Decodable(mp3_response.content)
    /\ result.kind = "return" /\ result.owned = TRUE
    /\ result.path = wave_file

\* C4: whenever a request create_and_get_tts makes (the creation POST or the
\* audio GET) is answered with a non-2xx status, the call returns the fallback
\* path with owned = False.
C4_Non2xxRecovered ==
    (/\ Done /\ InTts
     /\ \/ Answered(create_response) /\ ~Is2xx(create_response.status_code)
        \/ Answered(mp3_response) /\ ~Is2xx(mp3_response.status_code))
        => ReturnedFallback

\* C5: call_service issues exactly one POST, to
\* base_url + '/services/' + domain + '/' + service with body {entity_id}, and
\* returns None for every status of the response.
C5_CallServiceOnePost ==
    InService
        => /\ Len(requests) <= 1
           /\ pc /= "svc_post"
                => /\ Len(requests) = 1
                   /\ requests[1].method = "POST"
                   /\ requests[1].url =
                        ha_config.base_url \o "/services/" \o call.domain
                            \o "/" \o call.service
                   /\ requests[1].json = [entity_id |-> call.entity_id]
           /\ (Done /\ Answered(service_response)) => ReturnedNothing
           /\ Answered(service_response) => pc \in {"svc_log", "done"}

C5_Witness ==
    /\ Done /\ InService
    /\ Answered(service_response) /\ service_response.status_code = 500
    /\ call.domain = "switch"
    /\ ReturnedNothing /\ Len(requests) = 1

\* C6: trigger_webhook with a non-empty webhook_id issues exactly one POST, to
\* base_url + '/webhook/' + webhook_id, whose body is the event record as given,
\* and returns None for every status of the response.
C6_WebhookOnePost ==
    (InWebhook /\ ha_config.webhook_id /= "")
        => /\ Len(requests) <= 1
           /\ pc \notin {"wh_guard", "wh_post"}
                => /\ Len(requests) = 1
                   /\ requests[1].method = "POST"
                   /\ requests[1].url =
                        ha_config.base_url \o "/webhook/" \o ha_config.webhook_id
                   /\ requests[1].json = call.event
                   /\ DOMAIN requests[1].json = DOMAIN call.event
           /\ (Done /\ Answered(service_response)) => ReturnedNothing
           /\ Answered(service_response) => pc \in {"wh_log", "done"}

C6_Witness ==
    /\ Done /\ InWebhook /\ ha_config.webhook_id = "sip_call"
    /\ Answered(service_response) /\ service_response.status_code = 404
    /\ call.event.event = "entered_menu"
    /\ requests[1].json.menu_id = "main"
    /\ ReturnedNothing

\* C7: a transport failure of a request made by create_and_get_tts,
\* call_service or trigger_webhook ends the call with the exception: the failed
\* request was issued once and is the last step of the call, and no path (the
\* fallback included) is returned.
C7_TransportErrorPropagates ==
    TransportFailed
        => /\ result.kind = "raise"
           /\ result.error = "ConnectionError"
           /\ result.path = NoneValue
           /\ result.path /= error_file_name
           /\ Cardinality({i \in DOMAIN requests : requests[i] = requests[Len(requests)]}) = 1
           /\ Len(trace) = Len(requests)
           /\ created = {}

C7_Witness ==
    /\ TransportFailed /\ InTts
    /\ Len(requests) = 2
    /\ result.kind = "raise" /\ result.at = "mp3_get"

\* C8 as stated: when the creation POST is answered 200 with a body that has no
\* url field, the call fails in the transcoding step, after the audio GET.
C8_FailsDuringTranscoding ==
    (/\ Done /\ InTts
     /\ Answered(create_response) /\ create_response.status_code = 200
     /\ ~HasUrl(create_response.body))
        => /\ result.kind = "raise"
           /\ result.at \in {"decode", "export"}
           /\ Len(requests) = 2

\* C8 amended: when the creation POST is answered 200 with a body that has no
\* url field, the call fails with an uncaught error raised while reading the
\* response (json() or ['url']), before any audio GET and before any scratch
\* file; no path is returned.
C8_FailsBeforeGet ==
    (/\ InTts
     /\ Answered(create_response) /\ create_response.status_code = 200
     /\ ~HasUrl(create_response.body))
        => /\ pc \in {"tts_check", "tts_parse", "done"}
           /\ trace = <<"POST">>
           /\ Len(requests) = 1
           /\ created = {}
           /\ Done => /\ result.kind = "raise"
                      /\ result.at \in {"json", "url"}
                      /\ result.path = NoneValue

C8_Witness ==
    /\ Done /\ InTts
    /\ create_response.status_code = 200
    /\ create_response.body.kind = "json_object" /\ ~HasUrl(create_response.body)
    /\ result.kind = "raise" /\ result.error = "KeyError"

\* C9: every request issued (creation POST, audio GET, service POST, webhook
\* POST) carries exactly Authorization = 'Bearer ' + token and
\* content-type = application/json of the config.
C9_AuthHeaders ==
    \A i \in DOMAIN requests : requests[i].headers = ExpectedHeaders

C9_Witness ==
    /\ InTts /\ Len(requests) = 2
    /\ requests[2].method = "GET"
    /\ requests[2].headers = ExpectedHeaders
    /\ ha_config.token = "t"

\* C10: after create_and_get_tts has finished, by return or by exception, the
\* scratch files it created that are still on disk are exactly the returned
\* path when it returned owned = True, and none otherwise.
C10_NoOrphanScratchFile ==
    (Done /\ InTts)
        => IF result.kind = "return" /\ result.owned
           THEN LeftOnDisk = {result.path}
           ELSE LeftOnDisk = {}

====
